---- MODULE Spec2Model ----
(***************************************************************************)
(* Model of woocommerce/client.go: the request-signing client.             *)
(*                                                                         *)
(* Strings are sequences of atoms.  An atom <<c, n>> is c escaped n times,  *)
(* where c is a run of unreserved characters ("orders", "oauth_nonce") or  *)
(* one reserved character ("&", "=", ":", "/", "?", "%"): <<"&", 0>> is    *)
(* "&", <<"&", 1>> is "%26" and <<"&", 2>> is "%2526".  Str writes a       *)
(* string out of unescaped atoms.                                          *)
(***************************************************************************)
EXTENDS Integers, Sequences, FiniteSets, TLC

(* ---- bounds of the model ---- *)
\* number of request operations one behaviour performs
MaxCalls == 2

\* the string of the given unescaped atoms
Str(cs) == [i \in 1..Len(cs) |-> <<cs[i], 0>>] \o <<>>

(* ---- program constants ---- *)
HashAlgorithm == Str(<<"HMAC-SHA256">>)
StatusOK == 200
StatusCreated == 201
StatusNotFound == 404

(* ---- the environment's inputs ---- *)
Nil == "nil"
MapIds == {"P"}
\* the url.Values the caller builds before the first request
CallerValues == [a |-> <<Str(<<"1">>), Str(<<"2">>)>>, b |-> <<Str(<<"x">>)>>]
Host == "example.com"
CK == Str(<<"ck">>)
CS == Str(<<"cs">>)
\* wall-clock second at which NewClient runs
ConstructTime == 3
\* a caller-supplied Option.OauthTimestamp (0 is the zero time: unset)
FixedTimestamp == 7
GoodEndpoint == Str(<<"orders">>)
\* an endpoint with an invalid percent escape: url.Parse rejects it
BadEndpoint == Str(<<"%", "zz">>)
Endpoints == {GoodEndpoint, BadEndpoint}
\* the nonce buffer as make([]byte, 16) leaves it
ZeroBuf == "00"
\* the 16 bytes the random source hands out on its n-th read
RandomBytes(n) == <<"r1", "r2", "r3", "r4", "r5", "r6">>[n]
\* outcomes of http.Client.Do
TransportError == <<"dial tcp: connection refused">>
ExecOutcomes == {[err |-> TRUE, status |-> 0],
                 [err |-> FALSE, status |-> StatusOK],
                 [err |-> FALSE, status |-> StatusCreated],
                 [err |-> FALSE, status |-> StatusNotFound]}
OtherMethods == {"PATCH"}

\* client: the Client NewClient built.  maps: the url.Values the caller holds.
\* open: response bodies handed out by the executor and not closed.  held: the
\* bodies the caller was given.  nextBody: the next body the executor opens.
\* now: the wall clock.  entropy: whether the random source works.  calls: the
\* requests made.  last: the record of the latest call of Client.request.
VARIABLES client, maps, open, held, nextBody, now, entropy, calls, last

vars == <<client, maps, open, held, nextBody, now, entropy, calls, last>>

(* ---- strings ---- *)
\* strings.Join
Join(ss, sep) ==
    LET joined[i \in 0..Len(ss)] ==
            IF i = 0 THEN <<>>
            ELSE IF i = 1 THEN ss[1]
            ELSE joined[i - 1] \o sep \o ss[i]
    IN  joined[Len(ss)]

\* the characters url.QueryEscape escapes, of those the program meets
Reserved == {"&", "=", ":", "/", "?", ",", "(", ")", "%"}

\* url.QueryEscape on one atom: a reserved character is escaped once more (its
\* "%" becomes "%25"), a run of unreserved characters stays
EscapeAtom(a) == IF a[1] \in Reserved THEN <<a[1], a[2] + 1>> ELSE a

\* url.QueryEscape
QueryEscape(s) == [i \in 1..Len(s) |-> EscapeAtom(s[i])] \o <<>>

DigitChar == <<"0", "1", "2", "3", "4", "5", "6", "7", "8", "9">>

RECURSIVE Itoa(_)
\* strconv.Itoa on a non-negative int
Itoa(n) ==
    IF n < 10 THEN Str(<<DigitChar[n + 1]>>)
    ELSE Itoa(n \div 10) \o Str(<<DigitChar[(n % 10) + 1]>>)

\* fmt.Sprintf("%x", sha1.Sum(nonce)): an injective name of the digest
Sha1Hex(buf) == Str(<<"sha1", "(", buf, ")">>)

\* base64(HMAC-SHA256(key, msg)): a symbolic term, injective in key and msg
HmacBase64(key, msg) == Str(<<"hmac", "(">>) \o key \o Str(<<",">>) \o msg \o Str(<<")">>)

(* ---- url.Values ---- *)
\* every key the program can meet, in the byte-wise order sort.Strings gives
KeyOrder == <<"a", "b", "consumer_key", "consumer_secret", "oauth_consumer_key",
              "oauth_nonce", "oauth_signature", "oauth_signature_method",
              "oauth_timestamp">>
AllKeys == {KeyOrder[i] : i \in 1..Len(KeyOrder)}

\* url.Values{}: no key has a value
EmptyValues == [k \in AllKeys |-> <<>>]
\* a literal mapping, given as a record of its keys
MakeValues(r) == [k \in AllKeys |-> IF k \in DOMAIN r THEN r[k] ELSE <<>>]
\* url.Values.Add
Add(v, k, val) == [v EXCEPT ![k] = Append(@, val)]
\* url.Values.Get: the first value of the key, "" when there is none
Get(v, k) == IF v[k] = <<>> THEN <<>> ELSE v[k][1]
\* the keys of the map, sorted (sort.Strings)
SortedKeys(v) == SelectSeq(KeyOrder, LAMBDA k : v[k] # <<>>)

\* the k=v entries of url.Values.Encode: every value of every key, keys sorted
EncodePairs(v, keys) ==
    LET pairs[n \in 0..Len(keys)] ==
            IF n = 0 THEN <<>>
            ELSE pairs[n - 1] \o
                 [i \in 1..Len(v[keys[n]]) |->
                    QueryEscape(Str(<<keys[n]>>)) \o Str(<<"=">>)
                        \o QueryEscape(v[keys[n]][i])]
    IN  pairs[Len(keys)]

\* url.Values.Encode
Encode(v) == Join(EncodePairs(v, SortedKeys(v)), Str(<<"&">>))

(* ---- construction ---- *)
\* the Option values a caller may pass (OauthTimestamp 0 is the zero time)
DefaultOption == [Version |-> "", API |-> FALSE, APIPrefix |-> <<>>, OauthTimestamp |-> 0]
Options ==
    {DefaultOption,
     [Version |-> "v1", API |-> FALSE, APIPrefix |-> <<>>, OauthTimestamp |-> 0],
     [Version |-> "v2", API |-> TRUE, APIPrefix |-> Str(<<"/", "wp-json", "/", "wc", "/">>),
      OauthTimestamp |-> FixedTimestamp],
     [Version |-> "v3", API |-> FALSE, APIPrefix |-> <<>>, OauthTimestamp |-> FixedTimestamp]}

\* NewClient without the OauthTimestamp default
NewClientNoDefault(scheme, ck, cs, option, clock) ==
    LET ver == IF option.Version # "" THEN option.Version ELSE "v3"
        path == IF option.API THEN option.APIPrefix ELSE Str(<<"/", "wc-api", "/">>)
    IN  [scheme |-> scheme, host |-> Host, path |-> path \o Str(<<ver, "/">>),
         ck |-> ck, cs |-> cs, option |-> option]

\* NewClient, for a store URL scheme://Host that parses
NewClient(scheme, ck, cs, option, clock) ==
    LET opt == IF option.OauthTimestamp = 0
               THEN [option EXCEPT !.OauthTimestamp = clock]
               ELSE option
        ver == IF opt.Version # "" THEN opt.Version ELSE "v3"
        path == IF opt.API THEN opt.APIPrefix ELSE Str(<<"/", "wc-api", "/">>)
    IN  [scheme |-> scheme, host |-> Host, path |-> path \o Str(<<ver, "/">>),
         ck |-> ck, cs |-> cs, option |-> opt]

\* url.URL.String of c.storeURL
StoreURLString(c) == Str(<<c.scheme, ":", "/", "/", c.host>>) \o c.path

(* ---- Signer ---- *)
\* Client.basicAuth: the mapping after the two Adds, and its encoding
basicAuth(c, params) ==
    LET p1 == Add(params, "consumer_key", c.ck)
        p2 == Add(p1, "consumer_secret", c.cs)
    IN  [params |-> p2, query |-> Encode(p2)]

\* the signing key with the version test written with "and"
SigningKeyAnd(c) ==
    IF c.option.Version # "v1" /\ c.option.Version # "v2"
    THEN c.cs \o Str(<<"&">>)
    ELSE c.cs

\* the signing key of Client.oauthSign
SigningKey(c) ==
    IF c.option.Version # "v1" \/ c.option.Version # "v2"
    THEN c.cs \o Str(<<"&">>)
    ELSE c.cs

\* Client.oauthSign: the key, the signed message and the signature
oauthSign(c, method, endpoint, params) ==
    LET signingKey == SigningKey(c)
        a == Join(<<Str(<<method>>), QueryEscape(endpoint), QueryEscape(params)>>,
                  Str(<<"&">>))
    IN  [key |-> signingKey, msg |-> a, signature |-> HmacBase64(signingKey, a)]

\* Client.oauth, with buf the nonce buffer after rand.Read
oauth(c, method, urlStr, params, buf) ==
    LET p1 == Add(params, "oauth_consumer_key", c.ck)
        p2 == Add(p1, "oauth_timestamp", Itoa(c.option.OauthTimestamp))
        p3 == Add(p2, "oauth_nonce", Sha1Hex(buf))
        p4 == Add(p3, "oauth_signature_method", HashAlgorithm)
        keys == SortedKeys(p4)
        paramStrs == [i \in 1..Len(keys) |-> Str(<<keys[i], "=">>) \o Get(p4, keys[i])]
        paramStr == Join(paramStrs, Str(<<"&">>))
        sig == oauthSign(c, method, urlStr, paramStr)
        p5 == Add(p4, "oauth_signature", sig.signature)
    IN  [params |-> p5, merged |-> p4, paramStr |-> paramStr,
         key |-> sig.key, msg |-> sig.msg, query |-> Encode(p5)]

(* ---- RequestBuilder ---- *)
\* the method switch that also lets PATCH through
MethodRecognisedLax(method) ==
    method \in {"POST", "PUT", "DELETE", "GET", "OPTIONS", "PATCH"}

\* the switch on method in Client.request: the cases that do not return
MethodRecognised(method) ==
    method \in {"POST", "PUT"} \/ method \in {"DELETE", "GET", "OPTIONS"}

\* url.Parse inside http.NewRequest: a "%" that two hex digits do not follow
\* is an error (an escaped character is "%" and its two hex digits)
URLParses(urlstr) ==
    \A i \in 1..Len(urlstr) :
        urlstr[i] = <<"%", 0>> =>
            i < Len(urlstr) /\ urlstr[i + 1][1] \in {"20", "2F", "3A"}

\* the status test that takes 200 alone for success
StatusSuccessOnlyOK(status) == status = StatusOK

\* the status test of Client.request
StatusSuccess(status) == ~((status # StatusOK) /\ (status # StatusCreated))

\* http.Response.Status
StatusText(status) ==
    CASE status = StatusOK -> "200 OK"
      [] status = StatusCreated -> "201 Created"
      [] status = StatusNotFound -> "404 Not Found"

NoResult == [kind |-> "none", body |-> 0, msg |-> <<>>]
NoSigning == [merged |-> EmptyValues, paramStr |-> <<>>, key |-> <<>>, msg |-> <<>>]
NoRequest == [method |-> "", url |-> <<>>, contentType |-> ""]

\* Client.request, one whole call, as a function of what it reads: the client,
\* the caller's mapping (paramsIn; pm names it, Nil for a nil mapping), what
\* rand.Read does (rnd) and what rawClient.Do does (ex), body being the
\* response body Do would hand back.  rnd and ex matter only where the code
\* reaches them.  The result is the record of the call and the mapping as the
\* call leaves it.
requestCall(c, paramsIn, body, op, method, endpoint, pm, rnd, ex) ==
    LET urlstr0 == StoreURLString(c) \o endpoint
        isBasic == c.scheme = "https"
        basic == basicAuth(c, paramsIn)
        signed == oauth(c, method, urlstr0, paramsIn, rnd.buf)
        query == IF isBasic THEN basic.query ELSE signed.query
        urlstr == urlstr0 \o Str(<<"?">>) \o query
        recognised == MethodRecognised(method)
        \* http.NewRequest fails on a URL that does not parse; req is then nil
        \* and req.Header.Set panics before err is looked at
        built == recognised /\ URLParses(urlstr)
        responded == built /\ ~ex.err
        success == responded /\ StatusSuccess(ex.status)
        result ==
            IF ~recognised THEN [kind |-> "error", body |-> 0,
                                 msg |-> <<"Method is not recognised: ", method>>]
            ELSE IF ~built THEN [kind |-> "panic", body |-> 0, msg |-> <<>>]
            ELSE IF ex.err THEN [kind |-> "error", body |-> 0, msg |-> TransportError]
            ELSE IF ~success THEN [kind |-> "error", body |-> 0,
                                   msg |-> <<"Request failed: ", StatusText(ex.status)>>]
            ELSE [kind |-> "body", body |-> body, msg |-> <<>>]
    IN  [paramsOut |-> IF isBasic THEN basic.params ELSE signed.params,
         call |-> [op |-> op, method |-> method, endpoint |-> endpoint, pm |-> pm,
                   paramsIn |-> paramsIn,
                   mode |-> IF isBasic THEN "Basic" ELSE "OAuth1",
                   randErr |-> ~isBasic /\ rnd.err,
                   nonceBuf |-> IF isBasic THEN "" ELSE rnd.buf,
                   signing |-> IF isBasic THEN NoSigning
                               ELSE [merged |-> signed.merged, paramStr |-> signed.paramStr,
                                     key |-> signed.key, msg |-> signed.msg],
                   doCalls |-> IF built THEN 1 ELSE 0,
                   req |-> IF built
                           THEN [method |-> method, url |-> urlstr,
                                 contentType |-> "application/json"]
                           ELSE NoRequest,
                   exec |-> IF built THEN ex ELSE [err |-> FALSE, status |-> 0],
                   respBody |-> IF responded THEN body ELSE 0,
                   result |-> result]]

\* what rand.Read does in the current state of the random source
RandRead ==
    IF entropy = "ok" THEN [err |-> FALSE, buf |-> RandomBytes(calls + 1)]
    ELSE [err |-> TRUE, buf |-> ZeroBuf]

\* the outcomes of rawClient.Do the call can meet: none when it returns before
ExecFor(method, endpoint) ==
    IF MethodRecognised(method) /\ URLParses(endpoint) THEN ExecOutcomes
    ELSE {[err |-> FALSE, status |-> 0]}

\* one call of Client.request and its effect on the state
request(op, method, endpoint, pm, ex) ==
    /\ calls < MaxCalls
    /\ \E out \in {requestCall(client, IF pm = Nil THEN EmptyValues ELSE maps[pm],
                               nextBody, op, method, endpoint, pm, RandRead, ex)} :
        /\ calls' = calls + 1
        /\ now' = now + 1
        /\ maps' = IF pm = Nil THEN maps ELSE [maps EXCEPT ![pm] = out.paramsOut]
        /\ open' = IF out.call.respBody # 0 THEN open \cup {nextBody} ELSE open
        /\ held' = IF out.call.result.kind = "body" THEN held \cup {nextBody} ELSE held
        /\ nextBody' = IF out.call.respBody # 0 THEN nextBody + 1 ELSE nextBody
        /\ last' = out.call
        /\ UNCHANGED <<client, entropy>>

ParamChoices == {Nil} \cup MapIds

\* Client.Post
Post ==
    \E e \in Endpoints : \E ex \in ExecFor("POST", e) :
        request("Post", "POST", e, Nil, ex)

\* Client.Put
Put ==
    \E e \in Endpoints : \E ex \in ExecFor("PUT", e) :
        request("Put", "PUT", e, Nil, ex)

\* Client.Get
GetOp ==
    \E e \in Endpoints, pm \in ParamChoices : \E ex \in ExecFor("GET", e) :
        request("Get", "GET", e, pm, ex)

\* Client.Delete
Delete ==
    \E e \in Endpoints, pm \in ParamChoices : \E ex \in ExecFor("POST", e) :
        request("Delete", "POST", e, pm, ex)

\* Client.Options
OptionsOp ==
    \E e \in Endpoints : \E ex \in ExecFor("OPTIONS", e) :
        request("Options", "OPTIONS", e, Nil, ex)

\* Client.request called inside the package with a method the switch rejects
RequestOther ==
    \E m \in OtherMethods, e \in Endpoints, pm \in ParamChoices : \E ex \in ExecFor(m, e) :
        request("request", m, e, pm, ex)

NoCall == [op |-> "none", method |-> "", endpoint |-> <<>>, pm |-> Nil,
           paramsIn |-> EmptyValues, mode |-> "none", randErr |-> FALSE, nonceBuf |-> "",
           signing |-> NoSigning, doCalls |-> 0, req |-> NoRequest,
           exec |-> [err |-> FALSE, status |-> 0], respBody |-> 0, result |-> NoResult]

\* the clients a behaviour may start with, and the state of the random source
\* of the process (read over http only)
Configurations ==
    ({"http"} \X Options \X {"ok"})
        \cup ({"http"} \X {DefaultOption} \X {"failed"})
        \cup ({"https"} \X {DefaultOption} \X {"ok"})

Init ==
    /\ \E cfg \in Configurations :
          /\ client = NewClient(cfg[1], CK, CS, cfg[2], ConstructTime)
          /\ entropy = cfg[3]
    /\ maps = [m \in MapIds |-> MakeValues(CallerValues)]
    /\ open = {}
    /\ held = {}
    /\ nextBody = 1
    /\ now = ConstructTime
    /\ calls = 0
    /\ last = NoCall

Next ==
    Post \/ Put \/ GetOp \/ Delete \/ OptionsOp \/ RequestOther

Spec == Init /\ [][Next]_vars

(* ---- properties ---- *)
RecognisedMethods == {"GET", "POST", "PUT", "DELETE", "OPTIONS"}
Called == last.op # "none"
Dispatched == last.doCalls = 1
\* the URL request resolves, before any query is appended
ResolvedURL == StoreURLString(client) \o last.endpoint
\* what the caller put into the mapping it passed (nothing for a nil mapping)
CallerParameters == IF last.pm = Nil THEN EmptyValues ELSE MakeValues(CallerValues)
MethodError == [kind |-> "error", body |-> 0,
                msg |-> <<"Method is not recognised: ", last.method>>]

C2_DeleteVerb ==
    last.op = "Delete" =>
        /\ Dispatched => last.req.method = "DELETE"
        /\ last.mode = "OAuth1" => last.signing.msg[1] = <<"DELETE", 0>>

\* C3: no request operation changes the client's fields or the parameter
\* mapping the caller passed in.
C3_NoLocalMutation == [][calls' # calls => client' = client /\ maps' = maps]_vars

\* C4: no response body is left open that the caller holds no handle to.
C4_BodiesReleased == open \subseteq held

\* C5: when the random source reports an error, nothing is signed from the
\* unfilled buffer, no request is dispatched and the caller gets an error.
C5_RandFailureFatal ==
    last.randErr =>
        /\ last.signing = NoSigning
        /\ last.doCalls = 0
        /\ last.result.kind = "error"

\* C6: the mode follows the scheme alone, and over https the query of the
\* dispatched request is the caller's parameters plus one consumer_key and
\* one consumer_secret entry, with no oauth_ key.
C6_BasicQuery ==
    Called =>
        /\ last.mode = IF client.scheme = "https" THEN "Basic" ELSE "OAuth1"
        /\ client.scheme = "https" /\ Dispatched =>
              last.req.url = ResolvedURL \o Str(<<"?">>) \o
                  Encode(Add(Add(CallerParameters, "consumer_key", client.ck),
                             "consumer_secret", client.cs))

\* C7: status 200 or 201 returns the executor's body and no error; any other
\* status returns no body and an error with the status text; a transport error
\* is returned as it is with no body; the executor runs at most once per call.
C7_ResponseInterpretation ==
    /\ last.doCalls <= 1
    /\ Dispatched =>
          /\ ~last.exec.err /\ last.exec.status \in {StatusOK, StatusCreated} =>
                last.result = [kind |-> "body", body |-> last.respBody, msg |-> <<>>]
                /\ last.respBody # 0
          /\ ~last.exec.err /\ last.exec.status \notin {StatusOK, StatusCreated} =>
                /\ last.result.kind = "error"
                /\ last.result.body = 0
                /\ last.result.msg[Len(last.result.msg)] = StatusText(last.exec.status)
          /\ last.exec.err =>
                last.result = [kind |-> "error", body |-> 0, msg |-> TransportError]

C7_Witness ==
    /\ Dispatched
    /\ last.exec.status = StatusCreated
    /\ last.result.kind = "body"
    /\ last.result.body = 2

\* C8: for every configured version the signing key is the consumer secret
\* followed by one "&", and the signed message is
\* METHOD & percentEncode(URL) & percentEncode(parameterString).
C8_SigningKeyAndMessage ==
    last.mode = "OAuth1" =>
        /\ last.signing.key = client.cs \o Str(<<"&">>)
        /\ last.signing.msg = Str(<<last.method, "&">>) \o QueryEscape(ResolvedURL)
                                \o Str(<<"&">>) \o QueryEscape(last.signing.paramStr)

C8_Witness ==
    /\ last.mode = "OAuth1"
    /\ client.option.Version = "v1"
    /\ last.signing.key = Str(<<"cs", "&">>)
    /\ last.pm # Nil

\* every key=value entry of a mapping, one per value, keys ascending
AllEntries(v) ==
    LET keys == SortedKeys(v)
        entries[n \in 0..Len(keys)] ==
            IF n = 0 THEN <<>>
            ELSE entries[n - 1] \o
                 [i \in 1..Len(v[keys[n]]) |-> Str(<<keys[n], "=">>) \o v[keys[n]][i]]
    IN  entries[Len(keys)]

\* the caller's parameters plus the four oauth fields of this request
MergedOf(params) ==
    Add(Add(Add(Add(params, "oauth_consumer_key", client.ck),
                "oauth_timestamp", Itoa(client.option.OauthTimestamp)),
            "oauth_nonce", Sha1Hex(last.nonceBuf)),
        "oauth_signature_method", HashAlgorithm)

\* C9: the signed parameter string is the merged parameter set (the caller's
\* parameters plus the four oauth fields), one key=value entry per parameter
\* in ascending key order joined by "&"; it has no oauth_signature entry, and
\* every pair sent in the query other than oauth_signature appears in it.
C9_ParameterString ==
    last.mode = "OAuth1" =>
        /\ last.signing.merged = MergedOf(CallerParameters)
        /\ last.signing.paramStr = Join(AllEntries(last.signing.merged), Str(<<"&">>))
        /\ \A i \in 1..Len(last.signing.paramStr) :
              last.signing.paramStr[i] # <<"oauth_signature", 0>>

\* C10: every OAuth1 request carries as oauth_timestamp the Unix seconds of
\* the client's timestamp source, fixed at construction (the caller's
\* OauthTimestamp, or the time of NewClient), however late the request is made.
C10_TimestampFixed ==
    /\ client.option.OauthTimestamp \in {ConstructTime, FixedTimestamp}
    /\ last.mode = "OAuth1" =>
          /\ last.signing.merged["oauth_timestamp"] # <<>>
          /\ \A i \in 1..Len(last.signing.merged["oauth_timestamp"]) :
                last.signing.merged["oauth_timestamp"][i]
                    = Itoa(client.option.OauthTimestamp)

C10_Witness ==
    /\ last.mode = "OAuth1"
    /\ calls = 2
    /\ now > client.option.OauthTimestamp + 1
    /\ Len(last.signing.merged["oauth_timestamp"]) = 2
====
